---- MODULE Spec2Model ----
(***************************************************************************)
(* State-machine model of the MOM client (src/mom_usuario.py) and of the   *)
(* administrator (src/mom_broker.py) working against one RabbitMQ broker.  *)
(*                                                                         *)
(* Names (users, topics, queues) are sequences of tokens: "_" is the       *)
(* underscore, "user" and "topic" are the words the naming convention      *)
(* uses, every other token is an opaque run of letters.  String operations *)
(* of the source (startswith, endswith, replace, split, join) are computed *)
(* on these sequences as Python computes them on the strings.              *)
(***************************************************************************)
EXTENDS Naturals, Sequences, FiniteSets, Bags, TLC

VARIABLES
    broker,      \* the broker: queues with their ready messages, exchanges, bindings
    sess,        \* per user name: the RabbitMQCliente object of that user's client process
    usuarios,    \* MOMGerenciador.usuarios
    relogio,     \* datetime.now(): one tick per envelope created
    publicacoes, \* number of basic_publish calls the program has made
    wk,          \* the consumer threads started by iniciar_consumo, by thread id
    entregas,    \* per user name: the envelopes handed to callback_mensagem, in order
    ult          \* the operation that produced this state and what it returned

vars == <<broker, sess, usuarios, relogio, publicacoes, wk, entregas, ult>>

----------------------------------------------------------------------------
(* Bounds *)

MaxMsgs == 2
MaxGeracoes == 2
MaxCrus == 1
MaxNome == 3

NomeA == <<"a">>
NomeUserA == <<"user", "_", "a">>
TopT == <<"t">>
TopTUser == <<"t", "_", "user">>
FilaQ == <<"q">>

Usuarios == {NomeA, NomeUserA}
Topicos == {TopT, TopTUser}
FilasGerais == {FilaQ}
Conteudos == {"hi"}

Admin == <<>>
Nenhum == <<>>

----------------------------------------------------------------------------
(* String operations of the source, on token sequences *)

StartsWith(s, p) == Len(s) >= Len(p) /\ SubSeq(s, 1, Len(p)) = p

EndsWith(s, p) == Len(s) >= Len(p) /\ SubSeq(s, Len(s) - Len(p) + 1, Len(s)) = p

PrefixoUser == <<"user", "_">>
PrefixoTopic == <<"topic", "_">>
PrefixoAmq == <<"amq", ".">>

\* nome_fila.replace("user_", ""): every occurrence is removed, left to right
RECURSIVE ReplaceUser(_)
ReplaceUser(s) ==
    IF s = <<>> THEN <<>>
    ELSE IF StartsWith(s, PrefixoUser) THEN ReplaceUser(SubSeq(s, 3, Len(s)))
    ELSE <<Head(s)>> \o ReplaceUser(Tail(s))

Underscores(s) == {i \in 1..Len(s) : s[i] = "_"}

MinDe(S) == CHOOSE i \in S : \A j \in S : i <= j
MaxDe(S) == CHOOSE i \in S : \A j \in S : j <= i

\* "_".join(nome_fila.split("_")[1:-1]): what lies between the first and the
\* last underscore; defined when split gives at least three parts
TemTresPartes(s) == Cardinality(Underscores(s)) >= 2

JoinMeio(s) == SubSeq(s, MinDe(Underscores(s)) + 1, MaxDe(Underscores(s)) - 1)

\* f"user_{nome_usuario}"
FilaPessoal(n) == PrefixoUser \o n

\* f"topic_{nome_topico}_{nome_usuario}"
FilaTopico(t, u) == PrefixoTopic \o t \o <<"_">> \o u

----------------------------------------------------------------------------
(* Message envelopes and their wire encoding *)

Envelope(tipo, remetente, alvo, conteudo, ts) ==
    [tipo |-> tipo, remetente |-> remetente, alvo |-> alvo,
     conteudo |-> conteudo, timestamp |-> ts]

\* json.dumps(mensagem): the body on the wire
JsonDumps(m) == [fmt |-> "json", val |-> m]

\* body.decode('utf-8') followed by json.loads: fails on a body that is not JSON
JsonValido(body) == body.fmt = "json"
JsonLoads(body) == body.val

\* a body that is not JSON, as any other AMQP publisher may leave in a queue
CorpoCru == [fmt |-> "raw", val |-> "texto"]

\* a body that is not UTF-8 text
CorpoBinario == [fmt |-> "bin", val |-> "bytes"]

\* body.decode('utf-8') succeeds
Utf8Valido(body) == body.fmt # "bin"

\* the dict consumir_uma_mensagem_fila builds for a text that is not JSON
MensagemSimples(body, ts) ==
    [tipo |-> "mensagem_simples", conteudo |-> body.val, timestamp |-> ts]

----------------------------------------------------------------------------
(* The broker primitives the program calls (pika channel methods) *)

SemFila(f, q) == [x \in (DOMAIN f) \ {q} |-> f[x]]

\* channel.queue_declare(queue=q, durable=True): creates the queue if absent
QueueDeclare(b, q) ==
    IF q \in DOMAIN b.filas THEN b
    ELSE [b EXCEPT !.filas = (q :> <<>>) @@ b.filas]

\* mutant of QueueDelete: the queue is unbound and left in place
QueueDeleteSoDesvincula(b, q) == [b EXCEPT !.bindings = {p \in b.bindings : p[2] # q}]

\* channel.queue_delete(queue=q): the queue, its bindings and the deliveries
\* pending on it go; deleting an absent queue succeeds
QueueDelete(b, q) ==
    [b EXCEPT !.filas = SemFila(b.filas, q),
              !.bindings = {p \in b.bindings : p[2] # q}]

\* channel.exchange_declare(exchange=e, exchange_type='fanout', durable=True)
ExchangeDeclare(b, e) == [b EXCEPT !.exchanges = b.exchanges \cup {e}]

\* channel.exchange_delete(exchange=e): the exchange and its bindings go
ExchangeDelete(b, e) ==
    [b EXCEPT !.exchanges = b.exchanges \ {e},
              !.bindings = {p \in b.bindings : p[1] # e}]

\* channel.queue_bind(exchange=e, queue=q)
QueueBind(b, e, q) == [b EXCEPT !.bindings = b.bindings \cup {<<e, q>>}]

\* basic_publish(exchange='', routing_key=q): the default exchange routes to the
\* queue of that name and drops the message when there is none
PublishDefault(b, q, body) ==
    IF q \in DOMAIN b.filas
    THEN [b EXCEPT !.filas[q] = Append(b.filas[q], body)]
    ELSE b

\* basic_publish(exchange=e, routing_key=''): fanout, one copy per bound queue
PublishFanout(b, e, body) ==
    [b EXCEPT !.filas = [q \in DOMAIN b.filas |->
        IF <<e, q>> \in b.bindings THEN Append(b.filas[q], body) ELSE b.filas[q]]]

\* GET /api/queues of the management API: the names of the queues
ApiQueues(b) == DOMAIN b.filas

\* GET /api/exchanges of the management API, fanout and not amq.*
ApiExchanges(b) == b.exchanges

----------------------------------------------------------------------------
(* Directory queries (management API listings, filtered by name) *)

\* RabbitMQCliente.buscar_usuarios_disponiveis: the names it returns
BuscarUsuariosDisponiveis(b) ==
    {ReplaceUser(q) : q \in {x \in ApiQueues(b) : StartsWith(x, PrefixoUser)}}

\* RabbitMQCliente._validar_usuario_existe
ValidarUsuarioExiste(b, u) == FilaPessoal(u) \in ApiQueues(b)

\* RabbitMQCliente._carregar_assinaturas_existentes: the topics it adds
CarregarAssinaturasExistentes(b, u) ==
    {JoinMeio(q) : q \in {x \in ApiQueues(b) :
        /\ StartsWith(x, PrefixoTopic)
        /\ EndsWith(x, <<"_">> \o u)
        /\ TemTresPartes(x)}}

\* ConsultorRabbitMQ.verificar_assinatura_existe
VerificarAssinaturaExiste(b, u, t) == FilaTopico(t, u) \in ApiQueues(b)

----------------------------------------------------------------------------
(* State after construction *)

FnVazia == [x \in {} |-> TRUE]

\* no call in progress; passo 1 and 2: exchange_declare, then queue_declare has
\* returned; criou: the broker resources the call has created so far
SemChamada == [passo |-> 0, topico |-> Nenhum, criou |-> {}]

\* connections are named after what opened them: the client object of u, or
\* the g-th personal or topics thread of u
SemConexao == <<Nenhum, 0, "none">>

\* self.connection = pika.BlockingConnection(...) in conectar
ConexaoPrincipal(u) == <<u, 0, "main">>

SessaoNova ==
    [fase |-> "novo",          \* novo: process started, not logged in; ativo; fechado
     conectado |-> FALSE,      \* _conectado and the connection is open
     canal |-> FALSE,          \* self.channel is open
     consuming |-> FALSE,      \* _consuming
     topicos |-> {},           \* topicos_assinados
     geracao |-> 0,            \* number of iniciar_consumo calls so far
     conexao |-> SemConexao,   \* self.connection, whose channel is self.channel
     aberta |-> FALSE,         \* self.connection is open
     agenda |-> <<>>,          \* the calls root.after has scheduled and not yet run
     mensagens |-> <<>>,       \* mensagens_recebidas, each with the thread that appended it
     chamada |-> SemChamada]   \* the assinar_topico call in progress, if any

\* what an operation leaves in ult: its name, its caller, its argument, what it
\* returned, and whether the operation before it was the same call and succeeded
\* ret: the message an operation returned, for those that return one
SemRetorno == [tipo |-> "nenhum"]

Op(op, u, alvo, ok) ==
    [op |-> op, u |-> u, alvo |-> alvo, ok |-> ok,
     rep |-> (ult.op = op /\ ult.u = u /\ ult.alvo = alvo /\ ult.ok),
     w |-> Nenhum, ret |-> SemRetorno]

\* the same for a step of the consumer thread w = <<user, generation, kind>>
OpW(op, w, alvo, ok) == [Op(op, w[1], alvo, ok) EXCEPT !.w = w]

Init ==
    /\ broker = [filas |-> FnVazia, exchanges |-> {}, bindings |-> {}, unacked |-> FnVazia]
    /\ sess = [u \in Usuarios |-> SessaoNova]
    /\ usuarios = {}
    /\ relogio = 0
    /\ publicacoes = 0
    /\ wk = FnVazia
    /\ entregas = [u \in Usuarios |-> <<>>]
    /\ ult = [op |-> "init", u |-> Admin, alvo |-> Nenhum, ok |-> TRUE, rep |-> FALSE,
              w |-> Nenhum, ret |-> SemRetorno]

\* RabbitMQCliente.esta_conectado
EstaConectado(s) == s.conectado

\* the consumers a deleted queue had are cancelled by the broker
CancelarConsumidores(w, q) == [i \in DOMAIN w |-> [w[i] EXCEPT !.cons = w[i].cons \ {q}]]

\* a delivery of a deleted queue that is still unacknowledged cannot be requeued
SemRequeue(b, q) ==
    [b EXCEPT !.unacked = [i \in DOMAIN b.unacked |->
        IF b.unacked[i].fila = q THEN [b.unacked[i] EXCEPT !.viva = FALSE] ELSE b.unacked[i]]]

\* queue_delete as the broker carries it out, consumers and deliveries included
ApagarFila(b, q) == SemRequeue(QueueDelete(b, q), q)

\* ch.basic_ack(delivery_tag): the delivery of w is settled
BasicAck(b, w) == [b EXCEPT !.unacked = [i \in (DOMAIN @) \ {w} |-> @[i]]]

\* connection.close(), of a thread or of the client object: what it holds unacknowledged goes back to
\* the head of its queue, if the queue still exists
FecharConexao(b, w) ==
    IF w \notin DOMAIN b.unacked THEN b
    ELSE LET d == b.unacked[w]
             b1 == BasicAck(b, w)
         IN IF d.viva /\ d.fila \in DOMAIN b1.filas
            THEN [b1 EXCEPT !.filas[d.fila] = <<d.body>> \o @]
            ELSE b1

\* _consuming is cleared: the consumer threads of u that are inside a
\* process_data_events call at that moment have the signal to stop
Sinalizar(w, u) ==
    [i \in DOMAIN w |->
        IF i[1] = u /\ w[i].pc = "poll" THEN [w[i] EXCEPT !.sinal = TRUE] ELSE w[i]]

\* the main thread of u's client is not inside _reiniciar_consumo's sleep
Livre(u) == sess[u].fase # "reiniciando"

\* an operation that returns failure and changes nothing
Falha(op, u, alvo) ==
    /\ ult' = Op(op, u, alvo, FALSE)
    /\ UNCHANGED <<broker, sess, usuarios, relogio, publicacoes, wk, entregas>>

----------------------------------------------------------------------------
(* RabbitMQCliente: login, logout, subscriptions *)

\* variant of SessaoAposRecusa: the refused login leaves the connection open
SessaoAposRecusaAberta(s) == [s EXCEPT !.aberta = TRUE]

\* conectar when _validar_usuario_existe fails: the connection it opened is
\* closed by desconectar, _conectado stays False, nothing is loaded
SessaoAposRecusa(s) == [s EXCEPT !.aberta = FALSE, !.conectado = FALSE]

\* RabbitMQCliente.conectar
Conectar(u) ==
    /\ sess[u].fase = "novo"
    /\ IF ValidarUsuarioExiste(broker, u)
       THEN /\ sess' = [sess EXCEPT ![u] =
                   [@ EXCEPT !.fase = "ativo", !.conectado = TRUE, !.canal = TRUE,
                             !.conexao = ConexaoPrincipal(u), !.aberta = TRUE,
                             !.topicos = @ \cup CarregarAssinaturasExistentes(broker, u)]]
            /\ ult' = Op("conectar", u, Nenhum, TRUE)
            /\ UNCHANGED <<broker, usuarios, relogio, publicacoes, wk, entregas>>
       ELSE /\ sess' = [sess EXCEPT ![u] = SessaoAposRecusa(@)]
            /\ ult' = Op("conectar", u, Nenhum, FALSE)
            /\ UNCHANGED <<broker, usuarios, relogio, publicacoes, wk, entregas>>

\* RabbitMQCliente.desconectar, called by UsuarioGUI._fechar_aplicacao
Desconectar(u) ==
    /\ sess[u].fase = "ativo"
    /\ sess' = [sess EXCEPT ![u] =
           [@ EXCEPT !.fase = "fechado", !.conectado = FALSE, !.canal = FALSE,
                     !.consuming = FALSE, !.aberta = FALSE]]
    /\ wk' = Sinalizar(wk, u)
    /\ broker' = FecharConexao(broker, ConexaoPrincipal(u))
    /\ ult' = Op("desconectar", u, Nenhum, TRUE)
    /\ UNCHANGED <<usuarios, relogio, publicacoes, entregas>>

\* mutant of BrokerAposAssinar: the queue_bind call is left out
BrokerAposAssinarSemBind(b, u, t) == QueueDeclare(ExchangeDeclare(b, t), FilaTopico(t, u))

\* the broker state assinar_topico leaves: exchange, queue and binding declared
BrokerAposAssinar(b, u, t) ==
    QueueBind(QueueDeclare(ExchangeDeclare(b, t), FilaTopico(t, u)), t, FilaTopico(t, u))

\* mutant of AssinarTopico: a topic already in topicos_assinados is refused
AssinarTopicoRecusaRepetido(u, t) ==
    IF EstaConectado(sess[u]) /\ sess[u].canal /\ t \notin sess[u].topicos
    THEN /\ broker' = BrokerAposAssinar(broker, u, t)
         /\ sess' = [sess EXCEPT ![u].topicos = @ \cup {t}]
         /\ ult' = Op("assinar_topico", u, t, TRUE)
         /\ UNCHANGED <<usuarios, relogio, publicacoes, wk, entregas>>
    ELSE Falha("assinar_topico", u, t)

\* RabbitMQCliente.assinar_topico
AssinarTopico(u, t) ==
    IF EstaConectado(sess[u]) /\ sess[u].canal
    THEN /\ broker' = BrokerAposAssinar(broker, u, t)
         /\ sess' = [sess EXCEPT ![u].topicos = @ \cup {t}]
         /\ ult' = Op("assinar_topico", u, t, TRUE)
         /\ UNCHANGED <<usuarios, relogio, publicacoes, wk, entregas>>
    ELSE Falha("assinar_topico", u, t)

\* variant: the unsubscribe also stops the consumption, as a restart would
SessaoAposDesassinarParando(s, t) == [s EXCEPT !.topicos = @ \ {t}, !.consuming = FALSE]

\* desassinar_topico on the session record: topicos_assinados.discard(topico)
SessaoAposDesassinar(s, t) == [s EXCEPT !.topicos = @ \ {t}]

\* RabbitMQCliente.desassinar_topico
DesassinarTopico(u, t) ==
    IF EstaConectado(sess[u]) /\ sess[u].canal
    THEN /\ broker' = ApagarFila(broker, FilaTopico(t, u))
         /\ wk' = CancelarConsumidores(wk, FilaTopico(t, u))
         /\ sess' = [sess EXCEPT ![u] = SessaoAposDesassinar(@, t)]
         /\ ult' = Op("desassinar_topico", u, t, TRUE)
         /\ UNCHANGED <<usuarios, relogio, publicacoes, entregas>>
    ELSE Falha("desassinar_topico", u, t)

----------------------------------------------------------------------------
(* RabbitMQCliente: the three dispatch operations *)

\* RabbitMQCliente.enviar_mensagem_usuario
EnviarMensagemUsuario(u, dest, c) ==
    /\ relogio < MaxMsgs
    /\ Livre(u)
    /\ IF ~EstaConectado(sess[u]) THEN Falha("enviar_mensagem_usuario", u, dest)
       ELSE IF dest \notin BuscarUsuariosDisponiveis(broker)
       THEN Falha("enviar_mensagem_usuario", u, dest)
       ELSE /\ relogio' = relogio + 1
            /\ IF sess[u].canal
               THEN /\ broker' = PublishDefault(broker, FilaPessoal(dest),
                                     JsonDumps(Envelope("mensagem_direta", u, dest, c, relogio')))
                    /\ publicacoes' = publicacoes + 1
                    /\ ult' = Op("enviar_mensagem_usuario", u, dest, TRUE)
               ELSE /\ ult' = Op("enviar_mensagem_usuario", u, dest, FALSE)
                    /\ UNCHANGED <<broker, publicacoes>>
            /\ UNCHANGED <<sess, usuarios, wk, entregas>>

\* RabbitMQCliente.enviar_mensagem_topico; a passive exchange_declare of an
\* absent exchange is answered with a channel close (404)
EnviarMensagemTopico(u, t, c) ==
    /\ relogio < MaxMsgs
    /\ Livre(u)
    /\ IF ~EstaConectado(sess[u]) \/ ~sess[u].canal THEN Falha("enviar_mensagem_topico", u, t)
       ELSE IF t \notin broker.exchanges
       THEN /\ sess' = [sess EXCEPT ![u].canal = FALSE]
            /\ ult' = Op("enviar_mensagem_topico", u, t, FALSE)
            /\ UNCHANGED <<broker, usuarios, relogio, publicacoes, wk, entregas>>
       ELSE /\ relogio' = relogio + 1
            /\ broker' = PublishFanout(broker, t,
                             JsonDumps(Envelope("mensagem_topico", u, t, c, relogio')))
            /\ publicacoes' = publicacoes + 1
            /\ ult' = Op("enviar_mensagem_topico", u, t, TRUE)
            /\ UNCHANGED <<sess, usuarios, wk, entregas>>

\* RabbitMQCliente.enviar_mensagem_fila
EnviarMensagemFila(u, q, c) ==
    /\ relogio < MaxMsgs
    /\ Livre(u)
    /\ IF ~EstaConectado(sess[u]) THEN Falha("enviar_mensagem_fila", u, q)
       ELSE /\ relogio' = relogio + 1
            /\ IF sess[u].canal
               THEN /\ broker' = PublishDefault(broker, q,
                                     JsonDumps(Envelope("mensagem_fila", u, q, c, relogio')))
                    /\ publicacoes' = publicacoes + 1
                    /\ ult' = Op("enviar_mensagem_fila", u, q, TRUE)
               ELSE /\ ult' = Op("enviar_mensagem_fila", u, q, FALSE)
                    /\ UNCHANGED <<broker, publicacoes>>
            /\ UNCHANGED <<sess, usuarios, wk, entregas>>

\* RabbitMQCliente.consumir_uma_mensagem_fila: basic_get on self.channel, decode,
\* basic_ack, return.  basic_get on an absent queue closes the channel (404);
\* only json.JSONDecodeError is caught around the decoding, so a body that is
\* not UTF-8 leaves through the outer handler, before the basic_ack
ConsumirUmaMensagemFila(u, q) ==
    /\ Livre(u)
    /\ IF ~EstaConectado(sess[u]) \/ ~sess[u].canal
       THEN Falha("consumir_uma_mensagem_fila", u, q)
       ELSE IF q \notin DOMAIN broker.filas
       THEN /\ sess' = [sess EXCEPT ![u].canal = FALSE]
            /\ broker' = FecharConexao(broker, ConexaoPrincipal(u))
            /\ ult' = Op("consumir_uma_mensagem_fila", u, q, FALSE)
            /\ UNCHANGED <<usuarios, relogio, publicacoes, wk, entregas>>
       ELSE IF broker.filas[q] = <<>>
       THEN Falha("consumir_uma_mensagem_fila", u, q)
       ELSE LET body == Head(broker.filas[q])
                b1 == [broker EXCEPT
                          !.filas[q] = Tail(@),
                          !.unacked = (ConexaoPrincipal(u) :>
                                         [fila |-> q, body |-> body, viva |-> TRUE]) @@ @]
            IN /\ ConexaoPrincipal(u) \notin DOMAIN broker.unacked
               /\ IF Utf8Valido(body)
                  THEN /\ broker' = BasicAck(b1, ConexaoPrincipal(u))
                       /\ ult' = [Op("consumir_uma_mensagem_fila", u, q, TRUE) EXCEPT
                                     !.ret = IF JsonValido(body) THEN JsonLoads(body)
                                             ELSE MensagemSimples(body, relogio)]
                  ELSE /\ broker' = b1
                       /\ ult' = Op("consumir_uma_mensagem_fila", u, q, FALSE)
               /\ UNCHANGED <<sess, usuarios, relogio, publicacoes, wk, entregas>>

----------------------------------------------------------------------------
(* The administrator: MOMGerenciador handlers over GerenciadorRabbitMQ *)

\* MOMGerenciador._adicionar_usuario
AdicionarUsuario(n) ==
    IF n \in usuarios THEN Falha("adicionar_usuario", Admin, n)
    ELSE /\ broker' = QueueDeclare(broker, FilaPessoal(n))
         /\ usuarios' = usuarios \cup {n}
         /\ ult' = Op("adicionar_usuario", Admin, n, TRUE)
         /\ UNCHANGED <<sess, relogio, publicacoes, wk, entregas>>

\* the queues _remover_usuario deletes after the personal queue: those listed
\* that start with topic_ and end with _<nome_usuario>
FilasTopicoDoUsuario(b, n) ==
    {q \in ApiQueues(b) : EndsWith(q, <<"_">> \o n) /\ StartsWith(q, PrefixoTopic)}

RECURSIVE ApagarFilas(_, _)
ApagarFilas(b, Q) ==
    IF Q = {} THEN b
    ELSE LET q == CHOOSE x \in Q : TRUE IN ApagarFilas(ApagarFila(b, q), Q \ {q})

RECURSIVE CancelarTodos(_, _)
CancelarTodos(w, Q) ==
    IF Q = {} THEN w
    ELSE LET q == CHOOSE x \in Q : TRUE IN CancelarTodos(CancelarConsumidores(w, q), Q \ {q})

\* MOMGerenciador._remover_usuario
RemoverUsuario(n) ==
    /\ n \in usuarios
    /\ LET b1 == ApagarFila(broker, FilaPessoal(n))
           Q == FilasTopicoDoUsuario(b1, n)
       IN /\ broker' = ApagarFilas(b1, Q)
          /\ wk' = CancelarTodos(wk, Q \cup {FilaPessoal(n)})
    /\ usuarios' = usuarios \ {n}
    /\ ult' = Op("remover_usuario", Admin, n, TRUE)
    /\ UNCHANGED <<sess, relogio, publicacoes, entregas>>

\* MOMGerenciador._adicionar_topico
AdicionarTopico(t) ==
    /\ broker' = ExchangeDeclare(broker, t)
    /\ ult' = Op("adicionar_topico", Admin, t, TRUE)
    /\ UNCHANGED <<sess, usuarios, relogio, publicacoes, wk, entregas>>

\* MOMGerenciador._remover_topico
RemoverTopico(t) ==
    /\ broker' = ExchangeDelete(broker, t)
    /\ ult' = Op("remover_topico", Admin, t, TRUE)
    /\ UNCHANGED <<sess, usuarios, relogio, publicacoes, wk, entregas>>

\* GerenciadorRabbitMQ.assinar_usuario_topico, from MOMGerenciador._toggle_assinatura
\* on a cell of the subscription table (a listed user, a listed topic)
AssinarUsuarioTopico(u, t) ==
    /\ u \in usuarios
    /\ t \in ApiExchanges(broker)
    /\ broker' = BrokerAposAssinar(broker, u, t)
    /\ ult' = Op("assinar_usuario_topico", u, t, TRUE)
    /\ UNCHANGED <<sess, usuarios, relogio, publicacoes, wk, entregas>>

\* GerenciadorRabbitMQ.desassinar_usuario_topico, from the same handler
DesassinarUsuarioTopico(u, t) ==
    /\ u \in usuarios
    /\ t \in ApiExchanges(broker)
    /\ broker' = ApagarFila(broker, FilaTopico(t, u))
    /\ wk' = CancelarConsumidores(wk, FilaTopico(t, u))
    /\ ult' = Op("desassinar_usuario_topico", u, t, TRUE)
    /\ UNCHANGED <<sess, usuarios, relogio, publicacoes, entregas>>

\* MOMGerenciador._adicionar_fila
AdicionarFila(q) ==
    /\ broker' = QueueDeclare(broker, q)
    /\ ult' = Op("adicionar_fila", Admin, q, TRUE)
    /\ UNCHANGED <<sess, usuarios, relogio, publicacoes, wk, entregas>>

\* variant of RemoverFila: no protection of the names that start with user_
RemoverFilaSemProtecao(q) ==
    /\ broker' = ApagarFila(broker, q)
    /\ wk' = CancelarConsumidores(wk, q)
    /\ ult' = Op("remover_fila", Admin, q, TRUE)
    /\ UNCHANGED <<sess, usuarios, relogio, publicacoes, entregas>>

\* MOMGerenciador._remover_fila
RemoverFila(q) ==
    IF StartsWith(q, PrefixoUser) THEN Falha("remover_fila", Admin, q)
    ELSE /\ broker' = ApagarFila(broker, q)
         /\ wk' = CancelarConsumidores(wk, q)
         /\ ult' = Op("remover_fila", Admin, q, TRUE)
         /\ UNCHANGED <<sess, usuarios, relogio, publicacoes, entregas>>

----------------------------------------------------------------------------
(* The client process: UsuarioGUI handlers and the consumer threads        *)

\* con: the connection the thread consumes on, once it has opened one;
\* aberta: that connection is open; passo, corpo: how far the thread is into
\* the callback of a delivery, where that is followed step by step, and the
\* body it was called with
SemCorpo == [fmt |-> "none", val |-> "none"]

\* vistos, tam, canalok: where the topics thread is in its loop over
\* topicos_assinados, where that loop is followed topic by topic: the topics it
\* has been through, the size the set had when the loop began, and whether a
\* basic_consume has closed the channel
ThreadNova ==
    [pc |-> "inicio", cons |-> {}, sinal |-> FALSE, con |-> SemConexao, aberta |-> FALSE,
     passo |-> 0, corpo |-> SemCorpo, vistos |-> {}, tam |-> 0, canalok |-> TRUE]

\* RabbitMQCliente.iniciar_consumo, on the session record
IniciarConsumo(s) ==
    IF EstaConectado(s) THEN [s EXCEPT !.consuming = TRUE, !.geracao = @ + 1] ELSE s

\* variant of ThreadsIniciadas: the threads are started without the
\* esta_conectado() test
ThreadsIniciadasSemTeste(w, s, u) ==
    (<<u, s.geracao + 1, "personal">> :> ThreadNova)
        @@ (<<u, s.geracao + 1, "topics">> :> ThreadNova) @@ w

\* the two threads iniciar_consumo starts, the g-th time it runs for u
ThreadsIniciadas(w, s, u) ==
    IF EstaConectado(s)
    THEN (<<u, s.geracao + 1, "personal">> :> ThreadNova)
            @@ (<<u, s.geracao + 1, "topics">> :> ThreadNova) @@ w
    ELSE w

\* UsuarioGUI.__init__: login, then iniciar_consumo
IniciarSessao(u) ==
    /\ sess[u].fase = "novo"
    /\ IF ValidarUsuarioExiste(broker, u)
       THEN LET s1 == [sess[u] EXCEPT !.fase = "ativo", !.conectado = TRUE, !.canal = TRUE,
                             !.conexao = ConexaoPrincipal(u), !.aberta = TRUE,
                          !.topicos = @ \cup CarregarAssinaturasExistentes(broker, u)]
            IN /\ sess' = [sess EXCEPT ![u] = IniciarConsumo(s1)]
               /\ wk' = ThreadsIniciadas(wk, s1, u)
               /\ ult' = Op("iniciar_sessao", u, Nenhum, TRUE)
               /\ UNCHANGED <<broker, usuarios, relogio, publicacoes, entregas>>
       ELSE /\ sess' = [sess EXCEPT ![u] = SessaoAposRecusa(@)]
            /\ ult' = Op("iniciar_sessao", u, Nenhum, FALSE)
            /\ UNCHANGED <<broker, usuarios, relogio, publicacoes, wk, entregas>>

\* UsuarioGUI._toggle_assinatura_topico on the checkbox of a listed topic: an
\* unchecked box subscribes and runs _reiniciar_consumo up to its sleep, a
\* checked one unsubscribes
AlternarAssinatura(u, t) ==
    /\ sess[u].fase = "ativo"
    /\ t \in ApiExchanges(broker)
    /\ IF t \notin sess[u].topicos
       THEN /\ sess[u].geracao < MaxGeracoes
            /\ IF sess[u].canal
               THEN /\ broker' = BrokerAposAssinar(broker, u, t)
                    /\ sess' = [sess EXCEPT ![u] =
                           [@ EXCEPT !.topicos = @ \cup {t}, !.consuming = FALSE,
                                     !.fase = "reiniciando"]]
                    /\ wk' = Sinalizar(wk, u)
                    /\ ult' = Op("assinar_topico", u, t, TRUE)
                    /\ UNCHANGED <<usuarios, relogio, publicacoes, entregas>>
               ELSE Falha("assinar_topico", u, t)
       ELSE IF sess[u].canal
            THEN /\ broker' = ApagarFila(broker, FilaTopico(t, u))
                 /\ wk' = CancelarConsumidores(wk, FilaTopico(t, u))
                 /\ sess' = [sess EXCEPT ![u] = SessaoAposDesassinar(@, t)]
                 /\ ult' = Op("desassinar_topico", u, t, TRUE)
                 /\ UNCHANGED <<usuarios, relogio, publicacoes, entregas>>
            ELSE Falha("desassinar_topico", u, t)

\* UsuarioGUI._reiniciar_consumo after its sleep: iniciar_consumo again
RetomarConsumo(u) ==
    /\ sess[u].fase = "reiniciando"
    /\ sess' = [sess EXCEPT ![u] = [IniciarConsumo(sess[u]) EXCEPT !.fase = "ativo"]]
    /\ wk' = ThreadsIniciadas(wk, sess[u], u)
    /\ ult' = Op("iniciar_consumo", u, Nenhum, TRUE)
    /\ UNCHANGED <<broker, usuarios, relogio, publicacoes, entregas>>

\* the queues a starting thread asks to consume
FilasDaThread(w) ==
    IF w[3] = "personal" THEN {FilaPessoal(w[1])}
    ELSE {FilaTopico(t, w[1]) : t \in sess[w[1]].topicos}

\* variant: the thread consumes on the connection of the client object
AbrirConexaoDoCliente(w) == ConexaoPrincipal(w[1])

\* consumer_connection / topic_connection = pika.BlockingConnection(...): a
\* connection of the thread's own, held in a local variable
AbrirConexao(w) == w

\* a thread from its start to the first test of its loop: own connection,
\* basic_consume on each queue (one absent queue closes the thread's channel and
\* with it every consumer; the personal thread then ends through its outer
\* handler, which does not close the connection), while self._consuming (a
\* thread that finds the flag cleared closes its connection and ends)
WorkerInicio(w) ==
    /\ w \in DOMAIN wk
    /\ wk[w].pc = "inicio"
    /\ LET existem == FilasDaThread(w) \subseteq DOMAIN broker.filas
           segue == sess[w[1]].consuming /\ (existem \/ w[3] = "topics")
       IN /\ wk' = [wk EXCEPT ![w] =
                 [@ EXCEPT !.con = AbrirConexao(w),
                           !.aberta = segue \/ (w[3] = "personal" /\ ~existem),
                           !.pc = IF segue THEN "poll" ELSE "fim",
                           !.cons = IF segue /\ existem THEN FilasDaThread(w) ELSE {}]]
          /\ ult' = OpW("thread_inicio", w, Nenhum, segue)
    /\ UNCHANGED <<broker, sess, usuarios, relogio, publicacoes, entregas>>

\* the broker pushes the head of a queue to one of its consumers (prefetch 1)
BrokerEntrega(w, q) ==
    /\ w \in DOMAIN wk
    /\ wk[w].pc = "poll"
    /\ q \in wk[w].cons
    /\ w \notin DOMAIN broker.unacked
    /\ q \in DOMAIN broker.filas
    /\ broker.filas[q] # <<>>
    /\ broker' = [broker EXCEPT
           !.filas[q] = Tail(@),
           !.unacked = (w :> [fila |-> q, body |-> Head(broker.filas[q]), viva |-> TRUE]) @@ @]
    /\ ult' = OpW("basic_deliver", w, q, TRUE)
    /\ UNCHANGED <<sess, usuarios, relogio, publicacoes, wk, entregas>>

\* mutant of RamoExcept: the handler only logs
RamoExceptSemAck(b, w) == b

\* the except branch of callback_fila_pessoal and of callback_topicos
RamoExcept(b, w) == BasicAck(b, w)

\* callback_fila_pessoal / callback_topicos on the delivery w holds: decode,
\* callback_mensagem (which may raise), ack in the try or in the except branch
Callback(w) ==
    /\ w \in DOMAIN wk
    /\ wk[w].pc = "poll"
    /\ w \in DOMAIN broker.unacked
    /\ \E levanta \in BOOLEAN :
         LET d == broker.unacked[w]
             sem_erro == JsonValido(d.body) /\ ~levanta
         IN /\ entregas' = IF JsonValido(d.body)
                           THEN [entregas EXCEPT ![w[1]] = Append(@, JsonLoads(d.body))]
                           ELSE entregas
            /\ broker' = IF sem_erro THEN BasicAck(broker, w) ELSE RamoExcept(broker, w)
            /\ ult' = OpW("callback", w, d.fila, sem_erro)
    /\ UNCHANGED <<sess, usuarios, relogio, publicacoes, wk>>

\* process_data_events(time_limit=1) returns and the loop tests self._consuming:
\* next poll, or connection.close() and the thread ends
PollRetorna(w) ==
    /\ w \in DOMAIN wk
    /\ wk[w].pc = "poll"
    /\ wk[w].passo = 0
    /\ IF sess[w[1]].consuming
       THEN /\ ult' = OpW("poll", w, Nenhum, TRUE)
            /\ UNCHANGED <<broker, wk>>
       ELSE /\ wk' = [wk EXCEPT ![w] = [@ EXCEPT !.pc = "fim", !.cons = {},
                                                  !.aberta = FALSE]]
            /\ broker' = FecharConexao(broker, w)
            /\ ult' = OpW("poll", w, Nenhum, FALSE)
    /\ UNCHANGED <<sess, usuarios, relogio, publicacoes, entregas>>

\* the bodies that are not JSON, in the queues and in flight
Crus(b) ==
    Cardinality({q \in DOMAIN b.filas :
                    \E i \in 1..Len(b.filas[q]) : ~JsonValido(b.filas[q][i])})
    + Cardinality({w \in DOMAIN b.unacked : ~JsonValido(b.unacked[w].body)})

\* another AMQP client publishes a body that is not JSON to a queue
PublicarCru(q) ==
    /\ q \in DOMAIN broker.filas
    /\ Crus(broker) < MaxCrus
    /\ CorpoCru \notin {broker.filas[q][i] : i \in 1..Len(broker.filas[q])}
    /\ broker' = PublishDefault(broker, q, CorpoCru)
    /\ ult' = Op("publicar_cru", Admin, q, TRUE)
    /\ UNCHANGED <<sess, usuarios, relogio, publicacoes, wk, entregas>>

\* another AMQP client publishes a body that is not UTF-8 text to a queue
PublicarBinario(q) ==
    /\ q \in DOMAIN broker.filas
    /\ Crus(broker) < MaxCrus
    /\ broker' = PublishDefault(broker, q, CorpoBinario)
    /\ ult' = Op("publicar_binario", Admin, q, TRUE)
    /\ UNCHANGED <<sess, usuarios, relogio, publicacoes, wk, entregas>>

----------------------------------------------------------------------------
(* SpecEnvio: the dispatch operations of every client session, with the    *)
(* administrator provisioning and removing users, topics and queues.       *)

NextEnvio ==
    \/ \E u \in Usuarios : Conectar(u)
    \/ \E u \in Usuarios : Desconectar(u)
    \/ \E u \in Usuarios, d \in Usuarios, c \in Conteudos : EnviarMensagemUsuario(u, d, c)
    \/ \E u \in Usuarios, t \in Topicos, c \in Conteudos : EnviarMensagemTopico(u, t, c)
    \/ \E u \in Usuarios, q \in FilasGerais, c \in Conteudos : EnviarMensagemFila(u, q, c)
    \/ \E n \in Usuarios : AdicionarUsuario(n)
    \/ \E n \in Usuarios : RemoverUsuario(n)
    \/ \E t \in Topicos : AdicionarTopico(t)
    \/ \E t \in Topicos : RemoverTopico(t)
    \/ \E q \in FilasGerais : AdicionarFila(q)
    \/ \E q \in FilasGerais : RemoverFila(q)

SpecEnvio == Init /\ [][NextEnvio]_vars

----------------------------------------------------------------------------
(* SpecAssinatura: subscribing and unsubscribing, by the clients and by    *)
(* the administrator, with users and topics added and removed.  No message *)
(* is sent: queue contents and the sessions' channels do not matter to the *)
(* existence of exchanges, queues and bindings.                            *)

NextAssinatura ==
    \/ \E u \in Usuarios : Conectar(u)
    \/ \E u \in Usuarios, t \in Topicos : AssinarTopico(u, t)
    \/ \E u \in Usuarios, t \in Topicos : DesassinarTopico(u, t)
    \/ \E n \in Usuarios : AdicionarUsuario(n)
    \/ \E n \in Usuarios : RemoverUsuario(n)
    \/ \E t \in Topicos : AdicionarTopico(t)
    \/ \E t \in Topicos : RemoverTopico(t)
    \/ \E u \in Usuarios, t \in Topicos : AssinarUsuarioTopico(u, t)
    \/ \E u \in Usuarios, t \in Topicos : DesassinarUsuarioTopico(u, t)

SpecAssinatura == Init /\ [][NextAssinatura]_vars

----------------------------------------------------------------------------
(* SpecReinicio: one client process with its consumer threads, no message  *)
(* in transit.  The administrator provisions users, topics and             *)
(* subscriptions; the client logs in, toggles subscriptions (each          *)
(* subscribe restarts its consumption) and closes; its threads start, poll *)
(* and end.                                                                *)

\* the users that run a client process where consumer threads are modelled
Clientes == {NomeA}

Threads == Clientes \X (1..MaxGeracoes) \X {"personal", "topics"}

NextReinicio ==
    \/ \E n \in Clientes : AdicionarUsuario(n)
    \/ \E t \in Topicos : AdicionarTopico(t)
    \/ \E u \in Clientes, t \in Topicos : AssinarUsuarioTopico(u, t)
    \/ \E u \in Clientes, t \in Topicos : DesassinarUsuarioTopico(u, t)
    \/ \E u \in Clientes : IniciarSessao(u)
    \/ \E u \in Clientes, t \in Topicos : AlternarAssinatura(u, t)
    \/ \E u \in Clientes : RetomarConsumo(u)
    \/ \E u \in Clientes : Desconectar(u)
    \/ \E w \in Threads : WorkerInicio(w)
    \/ \E w \in Threads : PollRetorna(w)

SpecReinicio == Init /\ [][NextReinicio]_vars

----------------------------------------------------------------------------
(* SpecConsumo: messages through the consumer threads of one client.  The  *)
(* broker is durable: the client starts against what the administrator    *)
(* provisioned before, both users, both topics and one of a few            *)
(* subscription sets.  The client logs in, sends and closes, another       *)
(* publisher may leave a body that is not JSON, the administrator may      *)
(* unsubscribe a user; the broker delivers and the threads consume.        *)

\* the subscription sets the administrator may have left
Preassinados == {{}, {<<NomeUserA, TopT>>}, {<<NomeA, TopT>>}}

RECURSIVE AssinarTodos(_, _)
AssinarTodos(b, S) ==
    IF S = {} THEN b
    ELSE LET p == CHOOSE x \in S : TRUE
         IN AssinarTodos(BrokerAposAssinar(b, p[1], p[2]), S \ {p})

\* the broker after _adicionar_usuario for each user, _adicionar_topico for
\* each topic and assinar_usuario_topico for each pair of S
Provisionado(S) ==
    AssinarTodos([filas |-> [q \in {FilaPessoal(n) : n \in Usuarios} |-> <<>>],
                  exchanges |-> Topicos, bindings |-> {}, unacked |-> FnVazia], S)

InitConsumo ==
    /\ \E S \in Preassinados : broker = Provisionado(S)
    /\ sess = [u \in Usuarios |-> SessaoNova]
    /\ usuarios = Usuarios
    /\ relogio = 0
    /\ publicacoes = 0
    /\ wk = FnVazia
    /\ entregas = [u \in Usuarios |-> <<>>]
    /\ ult = [op |-> "init", u |-> Admin, alvo |-> Nenhum, ok |-> TRUE, rep |-> FALSE,
              w |-> Nenhum, ret |-> SemRetorno]

NextConsumo ==
    \/ \E u \in Clientes : IniciarSessao(u)
    \/ \E u \in Clientes : Desconectar(u)
    \/ \E u \in Clientes, t \in ApiExchanges(broker), c \in Conteudos :
           EnviarMensagemTopico(u, t, c)
    \/ \E u \in Clientes, d \in Usuarios, c \in Conteudos : EnviarMensagemUsuario(u, d, c)
    \/ \E q \in DOMAIN broker.filas : PublicarCru(q)
    \/ \E u \in Usuarios, t \in Topicos : DesassinarUsuarioTopico(u, t)
    \/ \E w \in Threads : WorkerInicio(w)
    \/ \E w \in Threads, q \in DOMAIN broker.filas : BrokerEntrega(w, q)
    \/ \E w \in Threads : Callback(w)
    \/ \E w \in Threads : PollRetorna(w)

SpecConsumo == InitConsumo /\ [][NextConsumo]_vars

----------------------------------------------------------------------------
(* SpecPassos: assinar_topico as the three broker calls it makes, each a   *)
(* round trip during which the administrator's process may act.            *)

\* the exchanges and queues the broker holds
Recursos(b) ==
    {<<"exchange", e>> : e \in b.exchanges} \cup {<<"queue", q>> : q \in DOMAIN b.filas}

\* assinar_topico up to the return of exchange_declare
AssinarExchangeDeclare(u, t) ==
    /\ sess[u].fase = "ativo"
    /\ sess[u].chamada.passo = 0
    /\ IF EstaConectado(sess[u]) /\ sess[u].canal
       THEN /\ broker' = ExchangeDeclare(broker, t)
            /\ sess' = [sess EXCEPT ![u].chamada =
                   [passo |-> 1, topico |-> t,
                    criou |-> Recursos(broker') \ Recursos(broker)]]
            /\ ult' = Op("exchange_declare", u, t, TRUE)
            /\ UNCHANGED <<usuarios, relogio, publicacoes, wk, entregas>>
       ELSE Falha("assinar_topico", u, t)

\* ... from there to the return of queue_declare
AssinarQueueDeclare(u) ==
    /\ sess[u].chamada.passo = 1
    /\ LET t == sess[u].chamada.topico
       IN /\ broker' = QueueDeclare(broker, FilaTopico(t, u))
          /\ sess' = [sess EXCEPT ![u].chamada =
                 [@ EXCEPT !.passo = 2,
                           !.criou = @ \cup (Recursos(broker') \ Recursos(broker))]]
          /\ ult' = Op("queue_declare", u, t, TRUE)
    /\ UNCHANGED <<usuarios, relogio, publicacoes, wk, entregas>>

\* ... and queue_bind to the end: a bind that names an absent exchange or an
\* absent queue is answered with a channel close (404) and the call returns
\* failure from its except branch
AssinarQueueBind(u) ==
    /\ sess[u].chamada.passo = 2
    /\ LET t == sess[u].chamada.topico
       IN IF t \in broker.exchanges /\ FilaTopico(t, u) \in DOMAIN broker.filas
          THEN /\ broker' = QueueBind(broker, t, FilaTopico(t, u))
               /\ sess' = [sess EXCEPT ![u] =
                      [@ EXCEPT !.topicos = @ \cup {t}, !.chamada = SemChamada]]
               /\ ult' = Op("assinar_topico", u, t, TRUE)
          ELSE /\ broker' = broker
               /\ sess' = [sess EXCEPT ![u] =
                      [@ EXCEPT !.canal = FALSE, !.chamada = SemChamada]]
               /\ ult' = Op("assinar_topico", u, t, FALSE)
    /\ UNCHANGED <<usuarios, relogio, publicacoes, wk, entregas>>

NextPassos ==
    \/ \E n \in Usuarios : AdicionarUsuario(n)
    \/ \E n \in Usuarios : RemoverUsuario(n)
    \/ \E t \in Topicos : AdicionarTopico(t)
    \/ \E t \in Topicos : RemoverTopico(t)
    \/ \E u \in Clientes : Conectar(u)
    \/ \E u \in Clientes, t \in Topicos : AssinarExchangeDeclare(u, t)
    \/ \E u \in Clientes : AssinarQueueDeclare(u)
    \/ \E u \in Clientes : AssinarQueueBind(u)

SpecPassos == Init /\ [][NextPassos]_vars

----------------------------------------------------------------------------
(* SpecValidacao: the content checks.  A content is known by its length    *)
(* after strip(); the three send buttons of UsuarioGUI check it and call   *)
(* the RabbitMQCliente methods, which are also called as they stand.       *)

LimiteConteudo == 5000

ConteudosLimite ==
    {[comprimento |-> n] : n \in {0, LimiteConteudo, LimiteConteudo + 1}}

\* the checks of the send handlers: not conteudo, len(conteudo) > 5000
Validado(c) == ~(c.comprimento = 0) /\ ~(c.comprimento > LimiteConteudo)

\* messagebox.showwarning and return
Aviso(u, alvo) ==
    /\ ult' = Op("aviso", u, alvo, FALSE)
    /\ UNCHANGED <<broker, sess, usuarios, relogio, publicacoes, wk, entregas>>

\* UsuarioGUI._atualizar_lista_usuarios: the list of buscar_usuarios_disponiveis
\* with one occurrence of the user's own name removed; a name that two queues
\* yield is in the list twice
ComboDestinatario(b, u) ==
    {n \in BuscarUsuariosDisponiveis(b) :
        \/ n # u
        \/ Cardinality({q \in ApiQueues(b) :
                           StartsWith(q, PrefixoUser) /\ ReplaceUser(q) = n}) > 1}

\* UsuarioGUI._enviar_mensagem_usuario, the recipient picked in the combo
BotaoEnviarUsuario(u, dest, c) ==
    /\ sess[u].fase = "ativo"
    /\ dest \in ComboDestinatario(broker, u)
    /\ IF Validado(c) THEN EnviarMensagemUsuario(u, dest, c) ELSE Aviso(u, dest)

\* UsuarioGUI._enviar_mensagem_topico, the topic picked in the combo
BotaoEnviarTopico(u, t, c) ==
    /\ sess[u].fase = "ativo"
    /\ t \in ApiExchanges(broker)
    /\ IF Validado(c) THEN EnviarMensagemTopico(u, t, c) ELSE Aviso(u, t)

\* RabbitMQCliente.buscar_filas_gerais
BuscarFilasGerais(b) ==
    {q \in ApiQueues(b) : /\ ~StartsWith(q, PrefixoUser)
                          /\ ~StartsWith(q, PrefixoTopic)
                          /\ ~StartsWith(q, PrefixoAmq)}

\* UsuarioGUI._enviar_mensagem_fila, the queue picked in the combo
BotaoEnviarFila(u, q, c) ==
    /\ sess[u].fase = "ativo"
    /\ q \in BuscarFilasGerais(broker)
    /\ IF Validado(c) THEN EnviarMensagemFila(u, q, c) ELSE Aviso(u, q)

NextValidacao ==
    \/ \E n \in Usuarios : AdicionarUsuario(n)
    \/ \E t \in Topicos : AdicionarTopico(t)
    \/ \E q \in FilasGerais : AdicionarFila(q)
    \/ \E u \in Clientes, t \in Topicos : AssinarUsuarioTopico(u, t)
    \/ \E u \in Clientes : Conectar(u)
    \/ \E u \in Clientes, d \in Usuarios, c \in ConteudosLimite : BotaoEnviarUsuario(u, d, c)
    \/ \E u \in Clientes, t \in Topicos, c \in ConteudosLimite : BotaoEnviarTopico(u, t, c)
    \/ \E u \in Clientes, q \in FilasGerais, c \in ConteudosLimite : BotaoEnviarFila(u, q, c)
    \/ \E u \in Clientes, d \in Usuarios, c \in ConteudosLimite :
           EnviarMensagemUsuario(u, d, c)
    \/ \E u \in Clientes, t \in Topicos, c \in ConteudosLimite :
           EnviarMensagemTopico(u, t, c)
    \/ \E u \in Clientes, q \in FilasGerais, c \in ConteudosLimite :
           EnviarMensagemFila(u, q, c)

SpecValidacao == Init /\ [][NextValidacao]_vars

----------------------------------------------------------------------------
(* SpecNomes: the naming convention on its own.  A user name and a topic   *)
(* name are drawn from the valid names of up to MaxNome tokens; the        *)
(* administrator creates the user and the subscription, and the queue      *)
(* names are parsed back as the program parses them.                       *)

\* names that _validar_nome_recurso accepts ([a-zA-Z0-9_-]+)
NomesValidos == UNION {[1..k -> {"a", "user", "_"}] : k \in 1..MaxNome}

InitNomes ==
    /\ broker = [filas |-> FnVazia, exchanges |-> {}, bindings |-> {}, unacked |-> FnVazia]
    /\ sess = [u \in Usuarios |-> SessaoNova]
    /\ usuarios = {}
    /\ relogio = 0
    /\ publicacoes = 0
    /\ wk = FnVazia
    /\ entregas = [u \in Usuarios |-> <<>>]
    /\ \E n \in NomesValidos, t \in NomesValidos :
           ult = [op |-> "nomes", u |-> n, alvo |-> t, ok |-> TRUE, rep |-> FALSE,
                  w |-> Nenhum, ret |-> SemRetorno]

\* the administrator creates user ult.u and subscribes it to topic ult.alvo:
\* criar_fila(user_<n>) and assinar_usuario_topico(n, t)
ProvisionarNomes ==
    /\ ult.op = "nomes"
    /\ broker' = BrokerAposAssinar(QueueDeclare(broker, FilaPessoal(ult.u)), ult.u, ult.alvo)
    /\ ult' = [ult EXCEPT !.op = "provisionado"]
    /\ UNCHANGED <<sess, usuarios, relogio, publicacoes, wk, entregas>>

\* MOMGerenciador._carregar_usuarios_existentes, when the administrator starts
CarregarUsuariosExistentes ==
    /\ ult.op = "provisionado"
    /\ usuarios' = usuarios \cup
           {ReplaceUser(q) : q \in {x \in ApiQueues(broker) : StartsWith(x, PrefixoUser)}}
    /\ ult' = [ult EXCEPT !.op = "carregado"]
    /\ UNCHANGED <<broker, sess, relogio, publicacoes, wk, entregas>>

NextNomes == ProvisionarNomes \/ CarregarUsuariosExistentes

SpecNomes == InitNomes /\ [][NextNomes]_vars

----------------------------------------------------------------------------
(* SpecOrdem: messages to the personal queue of one client whose           *)
(* consumption restarts.  Users and topics are provisioned; the client     *)
(* logs in, sends to its own queue, ticks and unticks a topic; the broker  *)
(* delivers and the threads of every generation consume.                   *)

InitOrdem ==
    /\ broker = Provisionado({})
    /\ sess = [u \in Usuarios |-> SessaoNova]
    /\ usuarios = Usuarios
    /\ relogio = 0
    /\ publicacoes = 0
    /\ wk = FnVazia
    /\ entregas = [u \in Usuarios |-> <<>>]
    /\ ult = [op |-> "init", u |-> Admin, alvo |-> Nenhum, ok |-> TRUE, rep |-> FALSE,
              w |-> Nenhum, ret |-> SemRetorno]

NextOrdem ==
    \/ \E u \in Clientes : IniciarSessao(u)
    \/ \E u \in Clientes : AlternarAssinatura(u, TopT)
    \/ \E u \in Clientes : RetomarConsumo(u)
    \/ \E u \in Clientes, d \in Clientes, c \in Conteudos : EnviarMensagemUsuario(u, d, c)
    \/ \E w \in Threads : WorkerInicio(w)
    \/ \E w \in Threads, q \in DOMAIN broker.filas : BrokerEntrega(w, q)
    \/ \E w \in Threads : Callback(w)
    \/ \E w \in Threads : PollRetorna(w)

SpecOrdem == InitOrdem /\ [][NextOrdem]_vars

----------------------------------------------------------------------------------------------------------------------------------------
(* SpecFila: the general queues.  The administrator adds the client's user *)
(* and adds and removes a queue; the client logs in, sends to the queue,   *)
(* fetches from it one message at a time and closes; another publisher may *)
(* leave a text that is not JSON or bytes that are not text.               *)

\* the notice UsuarioGUI._consumir_uma_mensagem_fila shows for what the client
\* returned: "sucesso and mensagem", "not sucesso", otherwise
AvisoConsumo(ok, ret) ==
    IF ok /\ ret.tipo # "nenhum" THEN "sucesso"
    ELSE IF ~ok THEN "erro"
    ELSE "fila_vazia"

NextFila ==
    \/ \E n \in Clientes : AdicionarUsuario(n)
    \/ \E q \in FilasGerais : AdicionarFila(q)
    \/ \E q \in FilasGerais : RemoverFila(q)
    \/ \E u \in Clientes : Conectar(u)
    \/ \E u \in Clientes : Desconectar(u)
    \/ \E u \in Clientes, q \in FilasGerais, c \in Conteudos : EnviarMensagemFila(u, q, c)
    \/ \E u \in Clientes, q \in FilasGerais : ConsumirUmaMensagemFila(u, q)
    \/ \E q \in FilasGerais : PublicarCru(q)
    \/ \E q \in FilasGerais : PublicarBinario(q)

SpecFila == Init /\ [][NextFila]_vars

----------------------------------------------------------------------------
(* SpecConsultas: the directory queries of the client and of the           *)
(* administrator against a management API that answers 200 with the       *)
(* listing, answers another status, or fails (no connection, timeout).     *)
(* The administrator provisions users, topics, queues and subscriptions;   *)
(* another AMQP client may hold a server-named queue (amq.gen-...).        *)

Respostas == {"200", "500", "erro"}

\* what a query hands its caller: a value, or an exception
Resultado(val) == [levantou |-> FALSE, val |-> val]

\* the list buscar_usuarios_disponiveis builds, as a bag: one entry per queue
\* whose name starts with user_
ListaUsuarios(b) ==
    [n \in BuscarUsuariosDisponiveis(b) |->
        Cardinality({q \in ApiQueues(b) : StartsWith(q, PrefixoUser) /\ ReplaceUser(q) = n})]

\* RabbitMQCliente.buscar_usuarios_disponiveis, given the API's answer
BuscarUsuariosDisponiveisApi(b, r) ==
    Resultado(IF r = "200" THEN ListaUsuarios(b) ELSE EmptyBag)

\* RabbitMQCliente.buscar_topicos_disponiveis
BuscarTopicosDisponiveis(b, r) == Resultado(IF r = "200" THEN ApiExchanges(b) ELSE {})

\* variant of BuscarFilasGeraisApi: queues of topic subscriptions are listed too
BuscarFilasGeraisComTopicos(b, r) ==
    Resultado(IF r = "200"
              THEN {q \in ApiQueues(b) : ~StartsWith(q, PrefixoUser)
                                            /\ ~StartsWith(q, PrefixoAmq)}
              ELSE {})

\* RabbitMQCliente.buscar_filas_gerais
BuscarFilasGeraisApi(b, r) == Resultado(IF r = "200" THEN BuscarFilasGerais(b) ELSE {})

\* variant of ListarFilas: the request is made outside the try
ListarFilasSemTry(b, r) ==
    IF r = "erro" THEN [levantou |-> TRUE, val |-> {}]
    ELSE Resultado(IF r = "200" THEN {q \in ApiQueues(b) : ~StartsWith(q, PrefixoAmq)}
                   ELSE {})

\* ConsultorRabbitMQ.listar_filas
ListarFilas(b, r) ==
    Resultado(IF r = "200" THEN {q \in ApiQueues(b) : ~StartsWith(q, PrefixoAmq)} ELSE {})

\* ConsultorRabbitMQ.listar_exchanges
ListarExchanges(b, r) == Resultado(IF r = "200" THEN ApiExchanges(b) ELSE {})

\* ConsultorRabbitMQ.verificar_assinatura_existe, through listar_filas
VerificarAssinaturaApi(b, u, t, r) ==
    IF ListarFilas(b, r).levantou THEN Resultado(FALSE)
    ELSE Resultado(FilaTopico(t, u) \in ListarFilas(b, r).val)

\* one round of the six queries, all given the same answer by the API
Consultar(u, t, r) ==
    /\ ult' = [Op("consultar", u, t, r = "200") EXCEPT !.ret =
                  [tipo |-> "consultas", resposta |-> r,
                   usuarios |-> BuscarUsuariosDisponiveisApi(broker, r),
                   topicos |-> BuscarTopicosDisponiveis(broker, r),
                   gerais |-> BuscarFilasGeraisApi(broker, r),
                   filas |-> ListarFilas(broker, r),
                   exchanges |-> ListarExchanges(broker, r),
                   assinatura |-> VerificarAssinaturaApi(broker, u, t, r)]]
    /\ UNCHANGED <<broker, sess, usuarios, relogio, publicacoes, wk, entregas>>

\* the server-named queue of another AMQP client
FilaAmq == <<"amq", ".", "gen">>

\* another AMQP client declares a queue with an empty name
DeclararFilaAmq ==
    /\ FilaAmq \notin DOMAIN broker.filas
    /\ broker' = QueueDeclare(broker, FilaAmq)
    /\ ult' = Op("declarar_amq", Admin, FilaAmq, TRUE)
    /\ UNCHANGED <<sess, usuarios, relogio, publicacoes, wk, entregas>>

NextConsultas ==
    \/ \E n \in Usuarios : AdicionarUsuario(n)
    \/ \E t \in Topicos : AdicionarTopico(t)
    \/ \E q \in FilasGerais : AdicionarFila(q)
    \/ \E u \in Usuarios, t \in Topicos : AssinarUsuarioTopico(u, t)
    \/ DeclararFilaAmq
    \/ \E u \in Usuarios, t \in Topicos, r \in Respostas : Consultar(u, t, r)

SpecConsultas == Init /\ [][NextConsultas]_vars

----------------------------------------------------------------------------
(* SpecFim: how the session and the consumer threads of one client begin  *)
(* and end.  The administrator adds users and subscriptions and removes    *)
(* the client's user; the launcher starts the client, which logs in and    *)
(* closes; its threads start, poll and end.                                *)

\* MOMLauncher._iniciar_cliente: the client process is started for a name
\* whose queue the launcher finds listed
IniciarCliente(u) ==
    /\ ult' = Op("iniciar_cliente", u, Nenhum, ValidarUsuarioExiste(broker, u))
    /\ UNCHANGED <<broker, sess, usuarios, relogio, publicacoes, wk, entregas>>

NextFim ==
    \/ \E n \in Usuarios : AdicionarUsuario(n)
    \/ \E n \in Clientes : RemoverUsuario(n)
    \/ \E t \in Topicos : AdicionarTopico(t)
    \/ \E u \in Usuarios, t \in Topicos : AssinarUsuarioTopico(u, t)
    \/ \E u \in Clientes : IniciarCliente(u)
    \/ \E u \in Clientes : IniciarSessao(u)
    \/ \E u \in Clientes : Desconectar(u)
    \/ \E w \in Threads : WorkerInicio(w)
    \/ \E w \in Threads : PollRetorna(w)

SpecFim == Init /\ [][NextFim]_vars

----------------------------------------------------------------------------
(* SpecAdmin: the administrator alone, on the Usuarios, Filas and Tópicos   *)
(* tabs: users added and removed, queues added and removed under any valid *)
(* name (a name of the form user_<n> included), one topic and the          *)
(* subscriptions to it.                                                    *)

\* the names typed in the queue entry of the Filas tab
NomesDeFila == FilasGerais \cup {FilaPessoal(n) : n \in Usuarios}

NextAdmin ==
    \/ \E n \in Usuarios : AdicionarUsuario(n)
    \/ \E n \in Usuarios : RemoverUsuario(n)
    \/ \E q \in NomesDeFila : AdicionarFila(q)
    \/ \E q \in NomesDeFila : RemoverFila(q)
    \/ AdicionarTopico(TopT)
    \/ \E u \in Usuarios : AssinarUsuarioTopico(u, TopT)

SpecAdmin == Init /\ [][NextAdmin]_vars

----------------------------------------------------------------------------
(* SpecCallback: the callback of a consumer thread followed statement by   *)
(* statement.  Users and topics are provisioned; the client logs in and    *)
(* sends to its own queue, another publisher may leave a body that is not  *)
(* JSON; the broker delivers, and the thread's callback runs its           *)
(* statements in their order.                                              *)

\* variant of OrdemDoCallback: the delivery is acknowledged first
OrdemAckPrimeiro == <<"basic_ack", "callback_mensagem">>

\* callback_fila_pessoal / callback_topicos: decode and callback_mensagem,
\* then basic_ack (in the try body, or in the handler if the former raised)
OrdemDoCallback == <<"callback_mensagem", "basic_ack">>

\* the next statement of the callback of w, on the delivery it was called with
PassoCallback(w) ==
    /\ w \in DOMAIN wk
    /\ wk[w].pc = "poll"
    /\ \/ wk[w].passo = 0 /\ w \in DOMAIN broker.unacked
       \/ wk[w].passo = 1
    /\ LET op == OrdemDoCallback[wk[w].passo + 1]
           corpo == IF wk[w].passo = 0 THEN broker.unacked[w].body ELSE wk[w].corpo
       IN /\ wk' = [wk EXCEPT ![w] = [@ EXCEPT !.passo = (@ + 1) % 2, !.corpo = corpo]]
          /\ IF op = "callback_mensagem"
             THEN /\ entregas' = IF JsonValido(corpo)
                                 THEN [entregas EXCEPT ![w[1]] = Append(@, JsonLoads(corpo))]
                                 ELSE entregas
                  /\ UNCHANGED broker
             ELSE /\ broker' = BasicAck(broker, w)
                  /\ UNCHANGED entregas
          /\ ult' = [OpW(op, w, Nenhum, JsonValido(corpo)) EXCEPT !.ret = corpo]
    /\ UNCHANGED <<sess, usuarios, relogio, publicacoes>>

NextCallback ==
    \/ \E u \in Clientes : IniciarSessao(u)
    \/ \E u \in Clientes : Desconectar(u)
    \/ \E u \in Clientes, d \in Clientes, c \in Conteudos : EnviarMensagemUsuario(u, d, c)
    \/ \E q \in {FilaPessoal(u) : u \in Clientes} : PublicarCru(q)
    \/ \E w \in Threads : WorkerInicio(w)
    \/ \E w \in Threads, q \in DOMAIN broker.filas : BrokerEntrega(w, q)
    \/ \E w \in Threads : PassoCallback(w)
    \/ \E w \in Threads : PollRetorna(w)

SpecCallback == InitOrdem /\ [][NextCallback]_vars

----------------------------------------------------------------------------
(* SpecSink: from the consumer threads to the window.  Users and topics    *)
(* are provisioned; the client logs in, sends to its own queue and closes; *)
(* the broker delivers, the threads' callbacks hand each message to        *)
(* _processar_mensagem_recebida, and the main loop of the window runs what *)
(* was scheduled.                                                          *)

\* the thread that runs the Tk main loop of u's window
ThreadUI(u) == <<u, 0, "main">>

\* variant of ProcessarMensagemRecebida: the calling thread appends itself
ProcessarNaThread(s, m, w) == [s EXCEPT !.mensagens = Append(@, [msg |-> m, por |-> w])]

\* UsuarioGUI._processar_mensagem_recebida, called by the thread w:
\* root.after(0, atualizar_gui)
ProcessarMensagemRecebida(s, m, w) == [s EXCEPT !.agenda = Append(@, m)]

\* callback_fila_pessoal / callback_topicos with the window's callback_mensagem
CallbackJanela(w) ==
    /\ w \in DOMAIN wk
    /\ wk[w].pc = "poll"
    /\ w \in DOMAIN broker.unacked
    /\ LET d == broker.unacked[w]
       IN /\ IF JsonValido(d.body)
             THEN /\ entregas' = [entregas EXCEPT ![w[1]] = Append(@, JsonLoads(d.body))]
                  /\ sess' = [sess EXCEPT ![w[1]] =
                                 ProcessarMensagemRecebida(@, JsonLoads(d.body), w)]
             ELSE UNCHANGED <<entregas, sess>>
          /\ broker' = IF JsonValido(d.body) THEN BasicAck(broker, w)
                       ELSE RamoExcept(broker, w)
          /\ ult' = OpW("callback", w, d.fila, JsonValido(d.body))
    /\ UNCHANGED <<usuarios, relogio, publicacoes, wk>>

\* atualizar_gui, run by the main loop: mensagens_recebidas.append and
\* _exibir_mensagem
AtualizarGui(u) ==
    /\ sess[u].agenda # <<>>
    /\ sess' = [sess EXCEPT ![u] =
           [@ EXCEPT !.agenda = Tail(@),
                     !.mensagens = Append(@, [msg |-> Head(sess[u].agenda),
                                               por |-> ThreadUI(u)])]]
    /\ ult' = Op("atualizar_gui", u, Nenhum, TRUE)
    /\ UNCHANGED <<broker, usuarios, relogio, publicacoes, wk, entregas>>

NextSink ==
    \/ \E u \in Clientes : IniciarSessao(u)
    \/ \E u \in Clientes : Desconectar(u)
    \/ \E u \in Clientes, d \in Clientes, c \in Conteudos : EnviarMensagemUsuario(u, d, c)
    \/ \E q \in {FilaPessoal(u) : u \in Clientes} : PublicarCru(q)
    \/ \E w \in Threads : WorkerInicio(w)
    \/ \E w \in Threads, q \in DOMAIN broker.filas : BrokerEntrega(w, q)
    \/ \E w \in Threads : CallbackJanela(w)
    \/ \E u \in Clientes : AtualizarGui(u)
    \/ \E w \in Threads : PollRetorna(w)

SpecSink == InitOrdem /\ [][NextSink]_vars

----------------------------------------------------------------------------
(* SpecRegistro: the loop of the topics thread over topicos_assinados,     *)
(* topic by topic, while the session goes on ticking and unticking.  Users *)
(* and topics are provisioned, with one of a few subscription sets.        *)

\* _consumir_topicos up to its for loop: connection, channel, basic_qos
RegistroInicio(w) ==
    /\ w \in DOMAIN wk
    /\ w[3] = "topics"
    /\ wk[w].pc = "inicio"
    /\ wk' = [wk EXCEPT ![w] =
           [@ EXCEPT !.pc = "registro", !.con = AbrirConexao(w), !.aberta = TRUE,
                     !.tam = Cardinality(sess[w[1]].topicos)]]
    /\ ult' = OpW("registro_inicio", w, Nenhum, TRUE)
    /\ UNCHANGED <<broker, sess, usuarios, relogio, publicacoes, entregas>>

\* one turn of "for topico in self.topicos_assinados": the iterator raises
\* RuntimeError if the set has changed size since the loop began (the outer
\* handler of the thread prints it and the thread ends); otherwise
\* basic_consume on the next topic, or the loop is over and the thread tests
\* self._consuming
RegistroPasso(w) ==
    /\ w \in DOMAIN wk
    /\ wk[w].pc = "registro"
    /\ LET T == sess[w[1]].topicos
           resto == T \ wk[w].vistos
       IN IF Cardinality(T) # wk[w].tam
          THEN /\ wk' = [wk EXCEPT ![w] = [@ EXCEPT !.pc = "fim", !.cons = {}]]
               /\ ult' = OpW("registro", w, Nenhum, FALSE)
          ELSE IF resto = {}
          THEN /\ wk' = [wk EXCEPT ![w] =
                      [@ EXCEPT !.pc = IF sess[w[1]].consuming THEN "poll" ELSE "fim",
                                !.aberta = sess[w[1]].consuming,
                                !.cons = IF sess[w[1]].consuming THEN @ ELSE {}]]
               /\ ult' = OpW("registro_fim", w, Nenhum, TRUE)
          ELSE \E t \in resto :
                 LET existe == FilaTopico(t, w[1]) \in DOMAIN broker.filas
                     ok == wk[w].canalok /\ existe
                 IN /\ wk' = [wk EXCEPT ![w] =
                           [@ EXCEPT !.vistos = @ \cup {t},
                                     !.canalok = ok,
                                     !.cons = IF ok THEN @ \cup {FilaTopico(t, w[1])}
                                              ELSE {}]]
                    /\ ult' = OpW("registro", w, t, ok)
    /\ UNCHANGED <<broker, sess, usuarios, relogio, publicacoes, entregas>>

NextRegistro ==
    \/ \E u \in Clientes : IniciarSessao(u)
    \/ \E u \in Clientes, t \in Topicos : AlternarAssinatura(u, t)
    \/ \E u \in Clientes : RetomarConsumo(u)
    \/ \E w \in Threads : w[3] = "personal" /\ WorkerInicio(w)
    \/ \E w \in Threads : RegistroInicio(w)
    \/ \E w \in Threads : RegistroPasso(w)
    \/ \E w \in Threads : PollRetorna(w)

SpecRegistro == InitConsumo /\ [][NextRegistro]_vars

----------------------------------------------------------------------------
(* SpecEnvioPassos: enviar_mensagem_usuario call by call, the listing of   *)
(* the management API first and the publish after it, while the            *)
(* administrator adds and removes the recipient.                           *)

\* enviar_mensagem_usuario up to its check of the recipient in
\* buscar_usuarios_disponiveis (chamada.passo 3: the check has passed)
EnviarVerifica(u, dest) ==
    /\ sess[u].chamada = SemChamada
    /\ relogio < MaxMsgs
    /\ IF ~EstaConectado(sess[u]) \/ dest \notin BuscarUsuariosDisponiveis(broker)
       THEN Falha("enviar_mensagem_usuario", u, dest)
       ELSE /\ sess' = [sess EXCEPT ![u].chamada =
                           [passo |-> 3, topico |-> dest, criou |-> {}]]
            /\ ult' = Op("verificar_destinatario", u, dest, TRUE)
            /\ UNCHANGED <<broker, usuarios, relogio, publicacoes, wk, entregas>>

\* the rest of enviar_mensagem_usuario: the envelope, basic_publish on the
\* default exchange, return True
EnviarPublica(u, c) ==
    /\ sess[u].chamada.passo = 3
    /\ LET dest == sess[u].chamada.topico
       IN /\ relogio' = relogio + 1
          /\ sess' = [sess EXCEPT ![u].chamada = SemChamada]
          /\ IF sess[u].canal
             THEN /\ broker' = PublishDefault(broker, FilaPessoal(dest),
                                   JsonDumps(Envelope("mensagem_direta", u, dest, c, relogio')))
                  /\ publicacoes' = publicacoes + 1
                  /\ ult' = Op("enviar_mensagem_usuario", u, dest, TRUE)
             ELSE /\ ult' = Op("enviar_mensagem_usuario", u, dest, FALSE)
                  /\ UNCHANGED <<broker, publicacoes>>
    /\ UNCHANGED <<usuarios, wk, entregas>>

NextEnvioPassos ==
    \/ \E n \in Clientes : AdicionarUsuario(n)
    \/ \E n \in Clientes : RemoverUsuario(n)
    \/ \E q \in FilasGerais : AdicionarFila(q)
    \/ \E t \in Topicos : AdicionarTopico(t)
    \/ \E u \in Clientes : Conectar(u)
    \/ \E u \in Clientes, d \in Clientes : EnviarVerifica(u, d)
    \/ \E u \in Clientes, c \in Conteudos : EnviarPublica(u, c)

SpecEnvioPassos == Init /\ [][NextEnvioPassos]_vars

----------------------------------------------------------------------------
(* SpecDesligado: the methods of RabbitMQCliente called in any state of    *)
(* the client object: before the login, after a refused login, while       *)
(* logged in, after desconectar.                                           *)

\* RabbitMQCliente.iniciar_consumo called on the client object
ChamarIniciarConsumo(u) ==
    /\ sess[u].geracao < MaxGeracoes
    /\ sess' = [sess EXCEPT ![u] = IniciarConsumo(@)]
    /\ wk' = ThreadsIniciadas(wk, sess[u], u)
    /\ ult' = Op("iniciar_consumo", u, Nenhum, EstaConectado(sess[u]))
    /\ UNCHANGED <<broker, usuarios, relogio, publicacoes, entregas>>

NextDesligado ==
    \/ \E n \in Clientes : AdicionarUsuario(n)
    \/ \E t \in Topicos : AdicionarTopico(t)
    \/ \E q \in FilasGerais : AdicionarFila(q)
    \/ \E u \in Clientes : Conectar(u)
    \/ \E u \in Clientes : Desconectar(u)
    \/ \E u \in Clientes, t \in Topicos : AssinarTopico(u, t)
    \/ \E u \in Clientes, t \in Topicos : DesassinarTopico(u, t)
    \/ \E u \in Clientes, d \in Clientes, c \in Conteudos : EnviarMensagemUsuario(u, d, c)
    \/ \E u \in Clientes, t \in Topicos, c \in Conteudos : EnviarMensagemTopico(u, t, c)
    \/ \E u \in Clientes, q \in FilasGerais, c \in Conteudos : EnviarMensagemFila(u, q, c)
    \/ \E u \in Clientes, q \in FilasGerais : ConsumirUmaMensagemFila(u, q)
    \/ \E u \in Clientes : ChamarIniciarConsumo(u)

SpecDesligado == Init /\ [][NextDesligado]_vars

----------------
(* Claims *)

\* C1: at most one _consumir_topicos thread of a session is inside its poll
\* loop with consumers registered on the session's topic queues.
C1_UmWorkerDeTopicos ==
    \A u \in Usuarios :
        Cardinality({w \in DOMAIN wk : /\ w[1] = u
                                       /\ w[3] = "topics"
                                       /\ wk[w].pc = "poll"
                                       /\ wk[w].cons # {}}) <= 1

\* C2: a thread that was inside process_data_events when _consuming was cleared
\* (by desconectar or by _reiniciar_consumo) ends when that call returns: its
\* loop does not begin another poll.
C2_ParaAposSinal ==
    [][(ult'.op = "poll" /\ wk[ult'.w].sinal) => wk'[ult'.w].pc = "fim"]_vars

\* C3: every delivery a consumer thread's callback receives is acknowledged,
\* also when decoding fails or callback_mensagem raises: after the callback
\* the thread holds nothing unacknowledged and nothing went back to a queue.
C3_SempreConfirma ==
    [][ult'.op = "callback"
        => (ult'.w \notin DOMAIN broker'.unacked /\ broker'.filas = broker.filas)]_vars

\* a callback that ended in its except branch
C3_Witness == ult.op = "callback" /\ ~ult.ok /\ ult.w \notin DOMAIN broker.unacked

\* C4: enviar_mensagem_usuario to a recipient whose queue user_<recipient> does
\* not exist returns failure, makes no publish call and changes no queue.
C4_DestinatarioInexistente ==
    [][(ult'.op = "enviar_mensagem_usuario"
          /\ FilaPessoal(ult'.alvo) \notin DOMAIN broker.filas)
        => (~ult'.ok /\ publicacoes' = publicacoes /\ broker' = broker)]_vars

\* C5: if user_<r> exists when a connected sender s calls
\* enviar_mensagem_usuario(r, c), the call succeeds and exactly one Direct
\* envelope from s to r is appended to user_<r>.
C5_EnvioDireto ==
    [][(ult'.op = "enviar_mensagem_usuario"
          /\ EstaConectado(sess[ult'.u])
          /\ FilaPessoal(ult'.alvo) \in DOMAIN broker.filas)
        => (/\ ult'.ok
            /\ \E c \in Conteudos :
                   broker'.filas = [broker.filas EXCEPT ![FilaPessoal(ult'.alvo)] =
                       Append(@, JsonDumps(Envelope("mensagem_direta", ult'.u,
                                                    ult'.alvo, c, relogio')))])]_vars

\* C6: enviar_mensagem_topico on a topic whose exchange does not exist returns
\* failure, creates no exchange and publishes nothing; on a declared topic it
\* returns success.
C6_TopicoInexistente ==
    [][(ult'.op = "enviar_mensagem_topico" /\ EstaConectado(sess[ult'.u]))
        => IF ult'.alvo \notin broker.exchanges
           THEN ~ult'.ok /\ broker' = broker /\ publicacoes' = publicacoes
           ELSE ult'.ok]_vars

\* C7: a topic envelope for t reaches u's callback_mensagem only through u's
\* subscription to t (the queue topic_<t>_<u>), and each publish reaches it
\* once; a user who never subscribed to t gets no envelope for t.
C7_EntregaTopico ==
    [][(/\ ult'.op = "callback"
        /\ entregas'[ult'.u] # entregas[ult'.u]
        /\ entregas'[ult'.u][Len(entregas'[ult'.u])].tipo = "mensagem_topico")
        => LET m == entregas'[ult'.u][Len(entregas'[ult'.u])]
           IN /\ ult'.alvo = FilaTopico(m.alvo, ult'.u)
              /\ \A i \in 1..Len(entregas[ult'.u]) : entregas[ult'.u][i] # m]_vars

\* C8: after a successful assinar_topico(t) by u the fanout exchange t exists,
\* the queue topic_<t>_<u> exists and is bound to t, and t is in
\* topicos_assinados; the administrator's assinar_usuario_topico leaves the
\* same exchange, queue and binding.
C8_AposAssinar ==
    /\ (ult.op \in {"assinar_topico", "assinar_usuario_topico"} /\ ult.ok)
          => /\ ult.alvo \in broker.exchanges
             /\ FilaTopico(ult.alvo, ult.u) \in DOMAIN broker.filas
             /\ <<ult.alvo, FilaTopico(ult.alvo, ult.u)>> \in broker.bindings
    /\ (ult.op = "assinar_topico" /\ ult.ok) => ult.alvo \in sess[ult.u].topicos

C8_Witness ==
    /\ ult.op = "assinar_topico" /\ ult.ok /\ ~ult.rep
    /\ ult.u = NomeA /\ ult.alvo = TopT

\* C9: a second assinar_topico(t) right after a successful one succeeds too and
\* leaves the broker and the session as the first call left them, with the one
\* queue topic_<t>_<u> and t in topicos_assinados.
C9_Idempotente ==
    [][(ult'.op = "assinar_topico" /\ ult'.rep)
        => /\ ult'.ok
           /\ broker' = broker
           /\ sess' = sess
           /\ FilaTopico(ult'.alvo, ult'.u) \in DOMAIN broker'.filas
           /\ ult'.alvo \in sess'[ult'.u].topicos]_vars

C9_Witness == ult.op = "assinar_topico" /\ ult.rep /\ ult.ok

\* C10: right after a successful subscribe of u to t, by the client or by the
\* administrator, verificar_assinatura_existe(u, t) is true; right after a
\* successful unsubscribe it is false.
C10_ConsultaAposAssinar ==
    /\ (ult.op \in {"assinar_topico", "assinar_usuario_topico"} /\ ult.ok)
          => VerificarAssinaturaExiste(broker, ult.u, ult.alvo)
    /\ (ult.op \in {"desassinar_topico", "desassinar_usuario_topico"} /\ ult.ok)
          => ~VerificarAssinaturaExiste(broker, ult.u, ult.alvo)

\* an unsubscribe, by the administrator, of a topic the session had subscribed
C10_Witness ==
    /\ ult.op = "desassinar_usuario_topico" /\ ult.ok
    /\ ult.alvo \in sess[ult.u].topicos

\* C11: desassinar_topico(t) by a connected user who is not subscribed to t (t
\* not in topicos_assinados, no queue topic_<t>_<u>) returns a result other than
\* that of removing a subscription, which is (True, "... removida"), and
\* changes no state.
C11_NaoAssinado ==
    [][(/\ ult'.op = "desassinar_topico"
        /\ EstaConectado(sess[ult'.u]) /\ sess[ult'.u].canal
        /\ ult'.alvo \notin sess[ult'.u].topicos
        /\ FilaTopico(ult'.alvo, ult'.u) \notin DOMAIN broker.filas)
        => (~ult'.ok /\ broker' = broker /\ sess' = sess)]_vars

\* C12: an assinar_topico that returns failure leaves topicos_assinados as it
\* was and leaves on the broker no exchange or queue that the call created.
C12_FalhaSemEfeito ==
    [][(ult'.op = "assinar_topico" /\ ~ult'.ok)
        => /\ sess'[ult'.u].topicos = sess[ult'.u].topicos
           /\ sess[ult'.u].chamada.criou \cap Recursos(broker') = {}]_vars

\* C13: no dispatch operation hands the broker an envelope whose content is
\* empty or longer than 5000 characters: every body in a queue carries a
\* content of 1 to 5000 characters.
C13_ConteudoValido ==
    \A q \in DOMAIN broker.filas : \A i \in 1..Len(broker.filas[q]) :
        JsonValido(broker.filas[q][i]) => Validado(JsonLoads(broker.filas[q][i]).conteudo)

\* C14: a successful enviar_mensagem_fila(q, c) leaves the queue q existing,
\* with the QueueMessage envelope of this call as its last message.
C14_FilaDeclarada ==
    [][(ult'.op = "enviar_mensagem_fila" /\ ult'.ok)
        => /\ ult'.alvo \in DOMAIN broker'.filas
           /\ broker'.filas[ult'.alvo] # <<>>
           /\ \E c \in Conteudos :
                  broker'.filas[ult'.alvo][Len(broker'.filas[ult'.alvo])] =
                      JsonDumps(Envelope("mensagem_fila", ult'.u, ult'.alvo, c, relogio'))]_vars

\* C15: once user n exists and is subscribed to topic t, the user names parsed
\* from the user_ queues are exactly {n}, by the client and by the
\* administrator, and the topics parsed for n from the topic_ queues are
\* exactly {t}.
C15_IdaEVolta ==
    /\ ult.op \in {"provisionado", "carregado"}
          => /\ BuscarUsuariosDisponiveis(broker) = {ult.u}
             /\ CarregarAssinaturasExistentes(broker, ult.u) = {ult.alvo}
    /\ ult.op = "carregado" => usuarios = {ult.u}

\* C16: a subscription queue topic_<t>_<u> exists only if the personal queue
\* user_<u> and the exchange t both exist.
C16_AssinaturaTemDono ==
    \A u \in Usuarios, t \in Topicos :
        FilaTopico(t, u) \in DOMAIN broker.filas
            => (FilaPessoal(u) \in DOMAIN broker.filas /\ t \in broker.exchanges)

\* C17: the topic thread that a restart starts enters its poll loop with a
\* consumer on topic_<t>_<u> for every t in topicos_assinados whose queue
\* exists, the topic just subscribed included.
C17_ReinicioRegistraTodos ==
    [][(/\ ult'.op = "thread_inicio"
        /\ ult'.w[3] = "topics"
        /\ ult'.w[2] > 1
        /\ sess[ult'.u].consuming)
        => /\ wk'[ult'.w].pc = "poll"
           /\ \A t \in sess[ult'.u].topicos :
                  FilaTopico(t, ult'.u) \in DOMAIN broker.filas
                      => FilaTopico(t, ult'.u) \in wk'[ult'.w].cons]_vars

\* C18: a restart triggered by a subscribe leaves the personal-inbox threads
\* alone: the subscribe and the iniciar_consumo that follows it neither start a
\* personal thread nor change the state of one.
C18_PessoalIntocado ==
    [][ult'.op \in {"assinar_topico", "iniciar_consumo"}
        => \A w \in DOMAIN wk' :
               w[3] = "personal" => (w \in DOMAIN wk /\ wk'[w] = wk[w])]_vars

C21_OrdemPorFila ==
    \A u \in Usuarios : \A i, j \in 1..Len(entregas[u]) :
        (/\ i < j
         /\ entregas[u][i].tipo = entregas[u][j].tipo
         /\ entregas[u][i].alvo = entregas[u][j].alvo)
            => entregas[u][i].timestamp < entregas[u][j].timestamp

\* C22: consumir_uma_mensagem_fila by a connected client whose channel is
\* open, on a queue that holds a message, succeeds, takes exactly the head off
\* the queue and leaves nothing fetched and unacknowledged.
C22_BuscaConfirma ==
    [][(/\ ult'.op = "consumir_uma_mensagem_fila"
        /\ EstaConectado(sess[ult'.u])
        /\ sess[ult'.u].canal
        /\ ult'.alvo \in DOMAIN broker.filas
        /\ broker.filas[ult'.alvo] # <<>>)
        => /\ ult'.ok
           /\ broker'.filas = [broker.filas EXCEPT ![ult'.alvo] = Tail(@)]
           /\ ConexaoPrincipal(ult'.u) \notin DOMAIN broker'.unacked]_vars

\* C23: what consumir_uma_mensagem_fila does with a body that is not a JSON
\* envelope is return a mensagem_simples dict whose conteudo is the body's
\* text; a JSON envelope is returned as it was sent.
C23_EnvelopeCru ==
    [][(/\ ult'.op = "consumir_uma_mensagem_fila"
        /\ ConexaoPrincipal(ult'.u) \notin DOMAIN broker.unacked
        /\ broker'.filas # broker.filas)
        => LET body == Head(broker.filas[ult'.alvo])
           IN IF JsonValido(body)
              THEN ult'.ret = JsonLoads(body)
              ELSE /\ ult'.ret.tipo = "mensagem_simples"
                   /\ ult'.ret.tipo \notin {"mensagem_direta", "mensagem_topico",
                                             "mensagem_fila"}
                   /\ ult'.ret.conteudo = body.val]_vars

\* C24: when the management API answers with another status or the request
\* fails, the five listings return an empty collection,
\* verificar_assinatura_existe returns False, and none of them raises.
C24_FalhaSuave ==
    (ult.op = "consultar" /\ ult.ret.resposta # "200")
        => /\ ult.ret.usuarios = Resultado(EmptyBag)
           /\ ult.ret.topicos = Resultado({})
           /\ ult.ret.gerais = Resultado({})
           /\ ult.ret.filas = Resultado({})
           /\ ult.ret.exchanges = Resultado({})
           /\ ult.ret.assinatura = Resultado(FALSE)

\* the request failed while the broker had users, topics, a general queue and
\* the subscription asked about
C24_Witness ==
    /\ ult.op = "consultar"
    /\ ult.ret.resposta = "erro"
    /\ FilaTopico(ult.alvo, ult.u) \in DOMAIN broker.filas
    /\ FilaQ \in DOMAIN broker.filas
    /\ FilaPessoal(ult.u) \in DOMAIN broker.filas

\* C25: with the API answering, buscar_filas_gerais returns exactly the queues
\* that start with none of user_, topic_ and amq.; buscar_usuarios_disponiveis
\* returns one name per queue that starts with user_; and every queue that
\* does not start with amq. is of exactly one kind, by its prefix.
C25_ClassesPorPrefixo ==
    (ult.op = "consultar" /\ ult.ret.resposta = "200")
        => LET Q == DOMAIN broker.filas
               DeUsuario == {q \in Q : StartsWith(q, PrefixoUser)}
               DeTopico == {q \in Q : StartsWith(q, PrefixoTopic)}
               Internas == {q \in Q : StartsWith(q, PrefixoAmq)}
           IN /\ ult.ret.gerais.val = Q \ (DeUsuario \cup DeTopico \cup Internas)
              /\ BagCardinality(ult.ret.usuarios.val) = Cardinality(DeUsuario)
              /\ \A q \in DeUsuario : BagIn(ReplaceUser(q), ult.ret.usuarios.val)
              /\ DeUsuario \cap DeTopico = {}
              /\ DeUsuario \cap ult.ret.gerais.val = {}
              /\ DeTopico \cap ult.ret.gerais.val = {}
              /\ Q \ Internas = DeUsuario \cup DeTopico \cup ult.ret.gerais.val

\* the listing was made of a broker that holds a queue of each kind
C25_Witness ==
    /\ ult.op = "consultar"
    /\ ult.ret.resposta = "200"
    /\ FilaAmq \in DOMAIN broker.filas
    /\ FilaQ \in ult.ret.gerais.val
    /\ \E q \in DOMAIN broker.filas : StartsWith(q, PrefixoTopic)
    /\ BagCardinality(ult.ret.usuarios.val) = 2

\* C26: a consumer thread that has ended has closed the connection it opened.
C26_FimLimpo ==
    \A w \in DOMAIN wk : wk[w].pc = "fim" => ~wk[w].aberta

\* C27: the administrator's set of users is the set of names n whose queue
\* user_<n> exists on the broker.
C27_UsuarioEFila ==
    usuarios = {n \in Usuarios : FilaPessoal(n) \in DOMAIN broker.filas}

\* C28: _remover_usuario(n) deletes user_<n> and the subscription queues of n,
\* and leaves the personal queue and the subscription queues of every other
\* user in place.
C28_RemoverSoDoUsuario ==
    [][ult'.op = "remover_usuario"
        => /\ FilaPessoal(ult'.alvo) \notin DOMAIN broker'.filas
           /\ FilaTopico(TopT, ult'.alvo) \notin DOMAIN broker'.filas
           /\ \A v \in Usuarios \ {ult'.alvo} :
                  \A q \in {FilaPessoal(v), FilaTopico(TopT, v)} :
                      q \in DOMAIN broker.filas => q \in DOMAIN broker'.filas]_vars

\* C29: a login (conectar alone, or the whole of UsuarioGUI.__init__) leaves
\* the session connected exactly when user_<name> is listed; a refused login
\* returns False, leaves the connection closed, starts no thread and loads no
\* subscription.  The launcher starts a client under the same condition.
C29_PortaDeLogin ==
    [][ult'.op \in {"conectar", "iniciar_sessao", "iniciar_cliente"}
        => LET u == ult'.u
           IN IF FilaPessoal(u) \in DOMAIN broker.filas
              THEN /\ ult'.ok
                   /\ ult'.op # "iniciar_cliente" => EstaConectado(sess'[u])
              ELSE /\ ~ult'.ok
                   /\ wk' = wk
                   /\ ult'.op # "iniciar_cliente"
                        => /\ ~EstaConectado(sess'[u])
                           /\ ~sess'[u].aberta
                           /\ ~sess'[u].consuming
                           /\ sess'[u].topicos = {}]_vars

\* a login was refused while a queue that would be read as a subscription of
\* that name exists
C29_Witness ==
    /\ ult.op = "iniciar_sessao"
    /\ ~ult.ok
    /\ CarregarAssinaturasExistentes(broker, ult.u) # {}

C31_SinkNaThreadUI ==
    [][/\ \A u \in Usuarios : \A i \in 1..Len(sess'[u].mensagens) :
              sess'[u].mensagens[i].por = ThreadUI(u)
       /\ ult'.w # Nenhum
             => /\ sess'[ult'.u].mensagens = sess[ult'.u].mensagens
                /\ (ult'.op = "callback" /\ ult'.ok)
                      => Len(sess'[ult'.u].agenda) = Len(sess[ult'.u].agenda) + 1]_vars

\* two messages went from a thread to the window
C31_Witness ==
    \E u \in Usuarios :
        /\ Len(sess[u].mensagens) = 2
        /\ Len(entregas[u]) = 2
        /\ sess[u].agenda = <<>>

\* C32: topicos_assinados is not changed by assinar_topico or
\* desassinar_topico while a topics thread of the session is inside its loop
\* over the set.
C32_DonoUnico ==
    [][(/\ ult'.op \in {"assinar_topico", "desassinar_topico"}
        /\ sess'[ult'.u].topicos # sess[ult'.u].topicos)
        => \A w \in DOMAIN wk : w[1] = ult'.u => wk[w].pc # "registro"]_vars

\* C33: _remover_fila on a name that starts with user_ is refused and changes
\* nothing on the broker, and a queue user_<n> that exists stops existing only
\* in a step of _remover_usuario.
C33_FilaDeUsuarioProtegida ==
    [][/\ (ult'.op = "remover_fila" /\ StartsWith(ult'.alvo, PrefixoUser))
          => (~ult'.ok /\ broker' = broker)
       /\ \A n \in Usuarios :
             (FilaPessoal(n) \in DOMAIN broker.filas
                /\ FilaPessoal(n) \notin DOMAIN broker'.filas)
                => ult'.op = "remover_usuario"]_vars

\* the removal of an existing user's queue was asked for on the Filas tab
C33_Witness ==
    /\ ult.op = "remover_fila"
    /\ StartsWith(ult.alvo, PrefixoUser)
    /\ ult.alvo \in DOMAIN broker.filas
    /\ \E n \in usuarios : ult.alvo = FilaPessoal(n)

\* C34: a fetch from a general queue is answered with the empty-queue notice
\* exactly when the queue exists and is empty, the client being connected with
\* its channel open.
C34_FilaVaziaDistinta ==
    [][ult'.op = "consumir_uma_mensagem_fila"
        => (AvisoConsumo(ult'.ok, ult'.ret) = "fila_vazia"
              <=> /\ EstaConectado(sess[ult'.u])
                  /\ sess[ult'.u].canal
                  /\ ult'.alvo \in DOMAIN broker.filas
                  /\ broker.filas[ult'.alvo] = <<>>)]_vars

\* C35: after a successful login topicos_assinados is the set of topics t
\* whose queue topic_<t>_<u> exists, u being the user who logged in.
C35_AssinaturasDoUsuario ==
    [][(ult'.op = "conectar" /\ ult'.ok)
        => sess'[ult'.u].topicos =
              {t \in Topicos : FilaTopico(t, ult'.u) \in DOMAIN broker.filas}]_vars

\* C36: when enviar_mensagem_usuario returns success, its envelope has been
\* appended to the queue user_<recipient>.
C36_SucessoEnfileirado ==
    [][(ult'.op = "enviar_mensagem_usuario" /\ ult'.ok)
        => /\ FilaPessoal(ult'.alvo) \in DOMAIN broker.filas
           /\ FilaPessoal(ult'.alvo) \in DOMAIN broker'.filas
           /\ Len(broker'.filas[FilaPessoal(ult'.alvo)])
                 = Len(broker.filas[FilaPessoal(ult'.alvo)]) + 1]_vars

\* C37: while esta_conectado() is true, a send to an existing user, topic or
\* queue and a fetch from an existing queue holding a decodable message
\* succeed, whatever operation was rejected before.
C37_SessaoUtil ==
    [][(/\ ult'.u \in DOMAIN sess
        /\ EstaConectado(sess[ult'.u])
        /\ Livre(ult'.u)
        /\ \/ /\ ult'.op = "enviar_mensagem_usuario"
              /\ FilaPessoal(ult'.alvo) \in DOMAIN broker.filas
           \/ /\ ult'.op = "enviar_mensagem_topico"
              /\ ult'.alvo \in broker.exchanges
           \/ /\ ult'.op = "enviar_mensagem_fila"
              /\ ult'.alvo \in DOMAIN broker.filas
           \/ /\ ult'.op = "consumir_uma_mensagem_fila"
              /\ ult'.alvo \in DOMAIN broker.filas
              /\ broker.filas[ult'.alvo] # <<>>
              /\ Utf8Valido(Head(broker.filas[ult'.alvo])))
        => ult'.ok]_vars

\* C38: _adicionar_fila changes neither the set of users the directory reports
\* nor any user's set of subscriptions read from the queue names.
C38_FilaGeralNaoClassificada ==
    [][(ult'.op = "adicionar_fila")
        => /\ BuscarUsuariosDisponiveis(broker') = BuscarUsuariosDisponiveis(broker)
           /\ \A u \in Usuarios :
                 CarregarAssinaturasExistentes(broker', u)
                   = CarregarAssinaturasExistentes(broker, u)]_vars

\* C39: while esta_conectado() is false, assinar_topico, desassinar_topico,
\* the three sends and consumir_uma_mensagem_fila return failure, and they
\* and iniciar_consumo leave the broker, the consumer threads and
\* topicos_assinados as they were.
C39_DesligadoInerte ==
    [][(/\ ult'.u \in DOMAIN sess
        /\ ~EstaConectado(sess[ult'.u])
        /\ ult'.op \in {"assinar_topico", "desassinar_topico", "enviar_mensagem_usuario",
                        "enviar_mensagem_topico", "enviar_mensagem_fila",
                        "consumir_uma_mensagem_fila", "iniciar_consumo"})
        => /\ broker' = broker
           /\ wk' = wk
           /\ publicacoes' = publicacoes
           /\ sess'[ult'.u].topicos = sess[ult'.u].topicos
           /\ ~ult'.ok]_vars

\* a subscription is asked for after desconectar, with subscriptions loaded
C39_Witness ==
    /\ ult.op = "assinar_topico"
    /\ ~ult.ok
    /\ sess[ult.u].fase = "fechado"
    /\ ~EstaConectado(sess[ult.u])
    /\ sess[ult.u].topicos # {}
    /\ ult.alvo \in broker.exchanges

====
